---------------------------- MODULE Spec2Model ----------------------------
(***************************************************************************)
(* A model of src/cli/things_datasets/cli.py: the interactive pipeline     *)
(* that resolves a selection against the dataset catalog, fetches every    *)
(* selected sub-dataset through one of three backends, writes README.txt,  *)
(* zips extracted/ into things-datasets.zip and removes the two scratch    *)
(* directories.                                                            *)
(*                                                                         *)
(* Text is modelled as sequences of one-character strings, so that         *)
(* str.split, int() and str.replace are computed and not assumed.  A file  *)
(* name is a sequence of name pieces, a path a sequence of file names      *)
(* relative to output_dir.                                                 *)
(***************************************************************************)
EXTENDS Integers, Sequences, FiniteSets, TLC

VARIABLES
    selection,      \* cli.py:186  the tokens of input().split(',')
    selected_urls,  \* cli.py:188
    folder_names,   \* cli.py:189
    pc,             \* position of main() (or of the packaging call)
    idx,            \* 1-based position of the loop of cli.py:212
    fs,             \* the file system below output_dir
    error,          \* the exception that left main(), "none" if none did
    outcome,        \* history: per entry processed so far, how its step
                    \* ended and the files its fetch delivered
    fetchLog,       \* history: urls whose fetch has begun, in order
    lastOp,         \* history: the step taken last
    normCall,       \* history: the last extract_and_rename_zip call
    packCall        \* history: the last zip_all_folders call

vars == <<selection, selected_urls, folder_names, pc, idx, fs, error,
          outcome, fetchLog, lastOp, normCall, packCall>>

\* Longest selection read from the prompt.
MaxTokens == 2

(***************************************************************************)
(* Sequences and text                                                      *)
(***************************************************************************)
Range(s) == {s[i] : i \in DOMAIN s}

Last(s) == s[Len(s)]

IsPrefix(p, q) == Len(p) <= Len(q) /\ SubSeq(q, 1, Len(p)) = p

Drop(s, n) == SubSeq(s, n + 1, Len(s))

SeqsUpTo(S, n) == UNION {[1..k -> S] : k \in 1..n}

\* str.split(sep) for a one-character separator: always at least one part.
RECURSIVE Split(_, _)
Split(s, sep) ==
    IF \A i \in DOMAIN s : s[i] # sep THEN <<s>>
    ELSE LET k == CHOOSE i \in DOMAIN s :
                      s[i] = sep /\ \A j \in 1..(i - 1) : s[j] # sep
         IN  <<SubSeq(s, 1, k - 1)>> \o Split(Drop(s, k), sep)

\* str.replace(' ', '_')
RECURSIVE ReplaceSpaces(_)
ReplaceSpaces(s) ==
    IF s = <<>> THEN <<>>
    ELSE <<IF s[1] = " " THEN "_" ELSE s[1]>> \o ReplaceSpaces(Tail(s))

Digits == <<"0", "1", "2", "3", "4", "5", "6", "7", "8", "9">>

IsDigit(c) == \E d \in DOMAIN Digits : Digits[d] = c

DigitVal(c) == (CHOOSE d \in DOMAIN Digits : Digits[d] = c) - 1

RECURSIVE Strip(_)
Strip(s) ==
    IF s = <<>> THEN s
    ELSE IF s[1] = " " THEN Strip(Tail(s))
    ELSE IF Last(s) = " " THEN Strip(SubSeq(s, 1, Len(s) - 1))
    ELSE s

RECURSIVE DecimalValue(_)
DecimalValue(s) ==
    IF s = <<>> THEN 0
    ELSE 10 * DecimalValue(SubSeq(s, 1, Len(s) - 1)) + DigitVal(Last(s))

\* int(text): surrounding blanks are dropped, one sign is allowed, and at
\* least one digit must follow; anything else is a ValueError.
ParseInt(text) ==
    LET t == Strip(text)
        signed == t # <<>> /\ t[1] \in {"-", "+"}
        body == IF signed THEN Tail(t) ELSE t
        ok == body # <<>> /\ \A i \in DOMAIN body : IsDigit(body[i])
    IN  [ok |-> ok,
         val |-> IF ~ok THEN 0
                 ELSE IF signed /\ t[1] = "-" THEN 0 - DecimalValue(body)
                 ELSE DecimalValue(body)]

\* list[i] of Python, for a list of length n: negative i counts from the end.
PyIndexOK(n, i) == 0 - n <= i /\ i < n

PyIndexPos(n, i) == IF i >= 0 THEN i + 1 ELSE n + i + 1

(***************************************************************************)
(* The catalog (load_datasets)                                             *)
(***************************************************************************)
\* The rows of static/datasets.csv.  A url is its '/'-separated segments;
\* every url names one of the three hosts main() knows.  The two rows of a
\* group differ in a blank against an underscore, so that their folder
\* names coincide.
Rows ==
    << [name |-> <<"A">>, sub_dataset_name |-> <<"x", " ", "y">>,
        download_url |-> <<"figshare", "f1">>, include_files |-> <<>>,
        description |-> "d1", files |-> <<"a.dat">>,
        size |-> "1GB", code |-> "c1"],
       [name |-> <<"A">>, sub_dataset_name |-> <<"x", "_", "y">>,
        download_url |-> <<"figshare", "f2">>, include_files |-> <<>>,
        description |-> "d2", files |-> <<"a.dat">>,
        size |-> "2GB", code |-> ""],
       [name |-> <<"B">>, sub_dataset_name |-> <<"s", " ", "t">>,
        download_url |-> <<"osf", "o1">>, include_files |-> <<>>,
        description |-> "d3", files |-> <<"data.bin">>,
        size |-> "10MB", code |-> ""],
       [name |-> <<"B">>, sub_dataset_name |-> <<"s", "_", "t">>,
        download_url |-> <<"openneuro", "ds1">>,
        include_files |-> <<"sub-01", "sub-02">>,
        description |-> "d4", files |-> <<"sub-01", "sub-02">>,
        size |-> "3GB", code |-> "c2"] >>

FolderName(name, sub_dataset_name) ==
    name \o <<"_">> \o ReplaceSpaces(sub_dataset_name)

RowEntry(row) ==
    [sub_dataset_name |-> row.sub_dataset_name,
     download_url |-> row.download_url,
     folder_name |-> FolderName(row.name, row.sub_dataset_name),
     description |-> row.description,
     files |-> row.files,
     size |-> row.size,
     include_files |-> row.include_files,
     code |-> row.code]

\* The keys of the dict in insertion order, and the list under each key.
RECURSIVE GroupKeys(_)
GroupKeys(rows) ==
    IF rows = <<>> THEN <<>>
    ELSE LET front == GroupKeys(SubSeq(rows, 1, Len(rows) - 1))
             name == Last(rows).name
         IN  IF name \in Range(front) THEN front ELSE Append(front, name)

RECURSIVE GroupEntries(_, _)
GroupEntries(rows, name) ==
    IF rows = <<>> THEN <<>>
    ELSE LET rest == GroupEntries(Tail(rows), name)
         IN  IF rows[1].name = name THEN <<RowEntry(rows[1])>> \o rest
             ELSE rest

datasets == [k \in Range(GroupKeys(Rows)) |-> GroupEntries(Rows, k)]

datasetKeys == GroupKeys(Rows)

(***************************************************************************)
(* The file system below output_dir                                        *)
(*                                                                         *)
(* fs.dirs is the set of directories, fs.files maps each file to its       *)
(* content.  A content is a record: ok says whether the bytes are a        *)
(* readable zip archive, members maps each archive member's relative path  *)
(* to its content, bytes stands for the bytes themselves.                  *)
(***************************************************************************)
NoMembers == [p \in {} |-> <<>>]

Plain(bytes) == [ok |-> FALSE, members |-> NoMembers, bytes |-> bytes]

Zip(members) == [ok |-> TRUE, members |-> members, bytes |-> <<"zip">>]

EmptyFs == [dirs |-> {}, files |-> NoMembers]

Paths(f) == f.dirs \cup DOMAIN f.files

Exists(f, p) == p \in Paths(f)

IsDir(f, p) == p \in f.dirs

Under(f, d) == {p \in Paths(f) : IsPrefix(d, p) /\ p # d}

FilesUnder(f, d) == {p \in DOMAIN f.files : IsPrefix(d, p) /\ p # d}

\* os.listdir(d)
listdir(f, d) == {p[Len(d) + 1] : p \in Under(f, d)}

\* os.makedirs(p, exist_ok=True)
makedirs(f, p) ==
    [f EXCEPT !.dirs = @ \cup {SubSeq(p, 1, k) : k \in 1..Len(p)}]

\* shutil.rmtree(d)
rmtree(f, d) ==
    [dirs |-> {p \in f.dirs : ~IsPrefix(d, p)},
     files |-> [p \in {q \in DOMAIN f.files : ~IsPrefix(d, q)} |-> f.files[p]]]

\* open(p, 'w') ... write: the file is created or replaced.
WriteFile(f, p, content) ==
    [f EXCEPT !.files = [q \in DOMAIN f.files \cup {p} |->
                            IF q = p THEN content ELSE f.files[q]]]

\* os.rename(src, dst) with dst absent: the whole subtree changes its root.
Rename(f, src, dst) ==
    LET moved(p) == dst \o Drop(p, Len(src))
        stayD == {p \in f.dirs : ~IsPrefix(src, p)}
        goD == {p \in f.dirs : IsPrefix(src, p)}
        stayF == {p \in DOMAIN f.files : ~IsPrefix(src, p)}
        goF == {p \in DOMAIN f.files : IsPrefix(src, p)}
    IN  [dirs |-> stayD \cup {moved(p) : p \in goD},
         files |-> [q \in stayF \cup {moved(p) : p \in goF} |->
                      IF q \in stayF THEN f.files[q]
                      ELSE f.files[CHOOSE p \in goF : moved(p) = q]]]

\* shutil.move(src, dst): into dst when dst is a directory, and then an
\* existing dst/<basename(src)> is an error; a directory cannot replace a
\* file.  The result is the new file system and whether an error was raised.
move(f, src, dst) ==
    LET real_dst == IF IsDir(f, dst) THEN Append(dst, Last(src)) ELSE dst
    IN  IF IsDir(f, dst) /\ Exists(f, real_dst)
        THEN [fs |-> f, raised |-> "Error"]
        ELSE IF Exists(f, real_dst) /\ IsDir(f, src)
        THEN [fs |-> f, raised |-> "OSError"]
        ELSE [fs |-> Rename(f, src, real_dst), raised |-> "none"]

\* ZipFile.extractall(into): every member is written below `into`, with
\* the directories above it; a file already there is replaced.
extractall(f, archive, into) ==
    LET names == DOMAIN archive.members
        parents == UNION {{into \o SubSeq(m, 1, k) : k \in 0..(Len(m) - 1)} :
                          m \in names}
        old == DOMAIN f.files
    IN  [dirs |-> f.dirs \cup parents,
         files |-> [q \in old \cup {into \o m : m \in names} |->
                      IF \E m \in names : into \o m = q
                      THEN archive.members[CHOOSE m \in names : into \o m = q]
                      ELSE f.files[q]]]

(***************************************************************************)
(* The functions of cli.py                                                 *)
(***************************************************************************)
TempExtract == <<"temp_extract">>

\* extract_and_rename_zip: every exception is caught and printed, so the
\* caller always gets control back; `raised` records what was printed.
\* os.listdir gives no order, so [0] may be any name of the directory: the
\* value is the set of possible results.
extract_and_rename_zip(f, zip_path, extract_to, new_folder_name) ==
    LET temp_extract_to == Append(extract_to, TempExtract)
        f1 == makedirs(f, temp_extract_to)
        new_path == Append(extract_to, new_folder_name)
    IN  IF zip_path \notin DOMAIN f1.files
        THEN {[fs |-> f1, raised |-> "FileNotFoundError"]}
        ELSE IF ~f1.files[zip_path].ok
        THEN {[fs |-> f1, raised |-> "BadZipFile"]}
        ELSE LET f2 == extractall(f1, f1.files[zip_path], temp_extract_to)
             IN  IF listdir(f2, temp_extract_to) = {}
                 THEN {[fs |-> f2, raised |-> "IndexError"]}
                 ELSE {LET m == move(f2, Append(temp_extract_to, top_level_dir),
                                     new_path)
                       IN  IF m.raised # "none" THEN m
                           ELSE [fs |-> rmtree(m.fs, temp_extract_to),
                                 raised |-> "none"] :
                       top_level_dir \in listdir(f2, temp_extract_to)}

\* A walk that names each member by its file name alone.
WalkMembers_basename(f, source_dir) ==
    [arcname \in {<<Last(p)>> : p \in FilesUnder(f, source_dir)} |->
        f.files[CHOOSE p \in FilesUnder(f, source_dir) : <<Last(p)>> = arcname]]

\* The archive zip_all_folders writes: one member per file below
\* source_dir, named by its path relative to source_dir.
WalkMembers(f, source_dir) ==
    [arcname \in {Drop(p, Len(source_dir)) : p \in FilesUnder(f, source_dir)} |->
        f.files[source_dir \o arcname]]

\* The first zip_all_folders of the file (cli.py:71): it refuses a missing
\* or empty source directory before it opens the output.
zip_all_folders_first(f, source_dir, output_zip) ==
    IF ~Exists(f, source_dir) \/ listdir(f, source_dir) = {}
    THEN [fs |-> f, raised |-> "Exception"]
    ELSE [fs |-> WriteFile(f, output_zip, Zip(WalkMembers(f, source_dir))),
          raised |-> "none"]

\* The second zip_all_folders (cli.py:158) rebinds the module-level name, so
\* it is the one main() calls: the output is opened for writing at once and
\* os.walk of a missing directory yields nothing.
zip_all_folders(f, source_dir, output_zip) ==
    [fs |-> WriteFile(f, output_zip, Zip(WalkMembers(f, source_dir))),
     raised |-> "none"]

\* download_file: the GET may fail before the output is opened, or while
\* the body is streamed into it; in both cases the exception is re-raised.
download_file(f, output_path, reply) ==
    IF reply.status = "http_error"
    THEN [fs |-> f, raised |-> "RequestException"]
    ELSE IF reply.status = "stream_error"
    THEN [fs |-> WriteFile(f, output_path, Plain(<<"partial">>)),
          raised |-> "RequestException"]
    ELSE [fs |-> WriteFile(f, output_path, reply.body), raised |-> "none"]

\* get_filename_from_response: the Content-Disposition file name, if any.
get_filename_from_response(response) ==
    IF response.has_filename THEN [found |-> TRUE, filename |-> response.filename]
    ELSE [found |-> FALSE, filename |-> <<>>]

\* What the openneuro-py subprocess leaves in its target directory.
ToolFiles(f, dataset_id, include_files, download_path, run) ==
    LET names == IF include_files = <<>> THEN {<<"all">>}
                 ELSE {<<include_files[i]>> : i \in DOMAIN include_files}
        written == IF run.wrote = "nothing" THEN {}
                   ELSE IF run.wrote = "partial"
                   THEN {CHOOSE n \in names : TRUE}
                   ELSE names
    IN  [f EXCEPT !.files =
            [q \in DOMAIN f.files \cup {Append(download_path, n) : n \in written} |->
                IF \E n \in written : Append(download_path, n) = q
                THEN Plain(<<"bytes", dataset_id>>)
                ELSE f.files[q]]]

\* download_dataset_openneuro: a non-zero exit and an empty target
\* directory both raise; the exception is printed and re-raised.
download_dataset_openneuro(f, dataset_id, include_files, download_path, run) ==
    LET f1 == makedirs(f, download_path)
        f2 == ToolFiles(f1, dataset_id, include_files, download_path, run)
    IN  IF run.returncode # 0 THEN [fs |-> f2, raised |-> "Exception"]
        ELSE IF listdir(f2, download_path) = {}
        THEN [fs |-> f2, raised |-> "Exception"]
        ELSE [fs |-> f2, raised |-> "none"]

\* The first catalog entry with this url and the first group holding it.
EntriesWithUrl(url) ==
    {<<g, i>> \in (DOMAIN datasetKeys) \X (1..Len(Rows)) :
        /\ i <= Len(datasets[datasetKeys[g]])
        /\ datasets[datasetKeys[g]][i].download_url = url}

FirstWithUrl(url) ==
    CHOOSE e \in EntriesWithUrl(url) :
        \A o \in EntriesWithUrl(url) :
            e[1] < o[1] \/ (e[1] = o[1] /\ e[2] <= o[2])

RECURSIVE JoinWith(_, _)
JoinWith(parts, sep) ==
    IF parts = <<>> THEN <<>>
    ELSE IF Len(parts) = 1 THEN <<parts[1]>>
    ELSE <<parts[1], sep>> \o JoinWith(Tail(parts), sep)

ReadmeBlock(url) ==
    IF EntriesWithUrl(url) = {} THEN <<>>
    ELSE LET e == FirstWithUrl(url)
             name == datasetKeys[e[1]]
             dataset_info == datasets[name][e[2]]
         IN  <<"Dataset: ">> \o name \o <<"\n">>
             \o <<"Sub-Dataset: ">> \o dataset_info.sub_dataset_name \o <<"\n">>
             \o <<"Description: ", dataset_info.description, "\n">>
             \o <<"Size: ", dataset_info.size, "\n">>
             \o <<"Download URL: ">> \o JoinWith(url, "/") \o <<"\n">>
             \o <<"Files: ">> \o JoinWith(dataset_info.files, ", ") \o <<"\n">>
             \o <<"Code: ", dataset_info.code, "\n", "\n">>

RECURSIVE ReadmeText(_)
ReadmeText(urls) ==
    IF urls = <<>> THEN <<>>
    ELSE ReadmeBlock(urls[1]) \o ReadmeText(Tail(urls))

\* create_readme
create_readme(f, urls, readme_path) ==
    WriteFile(f, readme_path, Plain(ReadmeText(urls)))

(***************************************************************************)
(* main(): selection                                                       *)
(***************************************************************************)
\* One pass of the body of the loop of cli.py:190.
ResolveToken(sel) ==
    LET parts == Split(sel, ".")
        ints == [i \in DOMAIN parts |-> ParseInt(parts[i])]
        none == RowEntry(Rows[1])
    IN  IF Len(parts) # 2 \/ \E i \in DOMAIN parts : ~ints[i].ok
        THEN [ok |-> FALSE, raised |-> "ValueError", entry |-> none]
        ELSE LET main_idx == ints[1].val
                 sub_idx == ints[2].val
             IN  IF ~PyIndexOK(Len(datasetKeys), main_idx - 1)
                 THEN [ok |-> FALSE, raised |-> "IndexError", entry |-> none]
                 ELSE LET main_key ==
                              datasetKeys[PyIndexPos(Len(datasetKeys), main_idx - 1)]
                          subs == datasets[main_key]
                      IN  IF ~PyIndexOK(Len(subs), sub_idx - 1)
                          THEN [ok |-> FALSE, raised |-> "IndexError",
                                entry |-> none]
                          ELSE [ok |-> TRUE, raised |-> "none",
                                entry |-> subs[PyIndexPos(Len(subs), sub_idx - 1)]]

\* A resolver that puts each new entry in front of the earlier ones.
RECURSIVE ResolveAll_prepending(_)
ResolveAll_prepending(tokens) ==
    IF tokens = <<>> THEN <<>>
    ELSE LET r == ResolveToken(tokens[1])
         IN  ResolveAll_prepending(Tail(tokens))
             \o (IF r.ok THEN <<r.entry>> ELSE <<>>)

\* The loop of cli.py:190: the entries appended, in the order of the tokens.
RECURSIVE ResolveAll(_)
ResolveAll(tokens) ==
    IF tokens = <<>> THEN <<>>
    ELSE LET r == ResolveToken(tokens[1])
         IN  (IF r.ok THEN <<r.entry>> ELSE <<>>) \o ResolveAll(Tail(tokens))

(***************************************************************************)
(* The environment: the prompt, the servers and the external tool          *)
(***************************************************************************)
\* The texts the user may type between two commas.
Tokens ==
    { <<"1", ".", "1">>, <<"1", ".", "2">>, <<"2", ".", "1">>,
      <<"2", ".", "2">>, <<" ", "1", ".", "2">>,
      <<"0", ".", "1">>, <<"1", ".", "0">>, <<"-", "1", ".", "1">>,
      <<"3", ".", "1">>, <<"1", ".", "3">>, <<"1", ".", "1", ".", "1">>,
      <<"a", "b", "c">>, <<>> }

\* The zip archive a bulk-archive host serves for a url: one top-level
\* directory holding one file.
RemoteArchive(url) ==
    Zip([m \in {<< <<"top", Last(url)>>, <<"a.dat">> >>} |->
            Plain(<<"bytes", Last(url)>>)])

\* What a GET of an archive url may bring: an error, a body that is no zip
\* archive, an archive without members, or the archive.
ArchiveReplies(url) ==
    {[status |-> st, body |-> Plain(<<>>)] : st \in {"http_error", "stream_error"}}
    \cup {[status |-> "ok", body |-> b] :
            b \in {RemoteArchive(url), Zip(NoMembers), Plain(<<"html">>)}}

\* What the GET of download_file may bring for a single-file url.
FileReplies(url) ==
    {[status |-> st, body |-> Plain(<<>>)] : st \in {"http_error", "stream_error"}}
    \cup {[status |-> "ok", body |-> Plain(<<"bytes", Last(url)>>)]}

\* The response of the GET of cli.py:233, with or without a
\* Content-Disposition file name.
HeadReplies(url) ==
    { [status |-> "http_error", has_filename |-> FALSE, filename |-> <<>>],
      [status |-> "ok", has_filename |-> FALSE, filename |-> <<>>],
      [status |-> "ok", has_filename |-> TRUE, filename |-> <<"data.bin">>] }

\* How a run of openneuro-py may end.
ToolRuns ==
    { [returncode |-> 1, wrote |-> "nothing"],
      [returncode |-> 1, wrote |-> "partial"],
      [returncode |-> 0, wrote |-> "nothing"],
      [returncode |-> 0, wrote |-> "all"] }

(***************************************************************************)
(* main(): the pipeline                                                    *)
(***************************************************************************)
DownloadDir == << <<"downloads">> >>

ExtractedDir == << <<"extracted">> >>

ReadmePath == Append(ExtractedDir, <<"README.txt">>)

MainZipPath == << <<"things-datasets.zip">> >>

ZipPath(folder_name) == Append(DownloadDir, folder_name \o <<".zip">>)

\* 'marker' in url
UrlContains(url, marker) == marker \in Range(url)

\* The files below d, by their path relative to d.
TreeOf(f, d) ==
    [rel \in {Drop(p, Len(d)) : p \in FilesUnder(f, d)} |-> f.files[d \o rel]]

TopLevel(archive) == {m[1] : m \in DOMAIN archive.members}

\* An archive that can be read and holds exactly one top-level directory.
WellFormed(archive) ==
    /\ archive.ok
    /\ Cardinality(TopLevel(archive)) = 1
    /\ \A m \in DOMAIN archive.members : Len(m) > 1

\* The content of the top-level directory of a well-formed archive.
ArchiveContent(archive) ==
    [rel \in {Drop(m, 1) : m \in DOMAIN archive.members} |->
        archive.members[CHOOSE m \in DOMAIN archive.members : Drop(m, 1) = rel]]

Ended(result, delivered) == [result |-> result, delivered |-> delivered]

NoNormCall ==
    [made |-> FALSE, zip_path |-> <<>>, extract_to |-> <<>>,
     new_folder_name |-> <<>>, raised |-> "none", before |-> EmptyFs]

NoPackCall ==
    [made |-> FALSE, source_dir |-> <<>>, output_zip |-> <<>>,
     raised |-> "none", before |-> EmptyFs]

\* main() up to the prompt: output_dir holds nothing yet.
Init ==
    /\ selection \in SeqsUpTo(Tokens, MaxTokens)
    /\ selected_urls = <<>>
    /\ folder_names = <<>>
    /\ pc = "resolve"
    /\ idx = 0
    /\ fs = EmptyFs
    /\ error = "none"
    /\ outcome = <<>>
    /\ fetchLog = <<>>
    /\ lastOp = "start"
    /\ normCall = NoNormCall
    /\ packCall = NoPackCall

\* cli.py:188-203
ResolveSelection ==
    /\ pc = "resolve"
    /\ LET resolved == ResolveAll(selection)
       IN  /\ selected_urls' = [i \in DOMAIN resolved |-> resolved[i].download_url]
           /\ folder_names' = [i \in DOMAIN resolved |-> resolved[i].folder_name]
           /\ pc' = IF resolved = <<>> THEN "done" ELSE "mkdirs"
    /\ lastOp' = "resolve"
    /\ UNCHANGED <<selection, idx, fs, error, outcome, fetchLog, normCall, packCall>>

\* cli.py:205-210
MakeWorkingTree ==
    /\ pc = "mkdirs"
    /\ fs' = makedirs(makedirs(fs, DownloadDir), ExtractedDir)
    /\ idx' = 1
    /\ pc' = "loop"
    /\ lastOp' = "mkdirs"
    /\ UNCHANGED <<selection, selected_urls, folder_names, error, outcome,
                   fetchLog, normCall, packCall>>

AtEntry == pc = "loop" /\ idx <= Len(selected_urls)

\* cli.py:222-225: the download of the figshare branch.  download_file
\* re-raises and nothing around the call catches, so a failure leaves main().
DownloadArchive ==
    /\ AtEntry
    /\ UrlContains(selected_urls[idx], "figshare")
    /\ \E reply \in ArchiveReplies(selected_urls[idx]) :
         LET r == download_file(fs, ZipPath(folder_names[idx]), reply)
         IN  /\ fs' = r.fs
             /\ IF r.raised = "none"
                THEN /\ pc' = "extract"
                     /\ UNCHANGED <<error, outcome>>
                ELSE /\ pc' = "aborted"
                     /\ error' = r.raised
                     /\ outcome' = Append(outcome,
                                      Ended("download_error", NoMembers))
    /\ fetchLog' = Append(fetchLog, selected_urls[idx])
    /\ lastOp' = "download_file"
    /\ UNCHANGED <<selection, selected_urls, folder_names, idx, normCall, packCall>>

\* cli.py:226-228: the extraction of the figshare branch.
ExtractArchive ==
    /\ pc = "extract"
    /\ \E r \in extract_and_rename_zip(fs, ZipPath(folder_names[idx]),
                                       ExtractedDir, folder_names[idx]) :
         /\ fs' = r.fs
         /\ outcome' = Append(outcome,
                IF r.raised # "none" THEN Ended("extract_error", NoMembers)
                ELSE Ended("ok",
                       ArchiveContent(fs.files[ZipPath(folder_names[idx])])))
         /\ normCall' = [made |-> TRUE, zip_path |-> ZipPath(folder_names[idx]),
                         extract_to |-> ExtractedDir,
                         new_folder_name |-> folder_names[idx],
                         raised |-> r.raised, before |-> fs]
    /\ idx' = idx + 1
    /\ pc' = "loop"
    /\ lastOp' = "extract_and_rename_zip"
    /\ UNCHANGED <<selection, selected_urls, folder_names, error, fetchLog, packCall>>

\* cli.py:230-241: the osf branch.  Neither raise_for_status nor
\* download_file is guarded, so a failure leaves main().
FetchDirectFile ==
    /\ AtEntry
    /\ ~UrlContains(selected_urls[idx], "figshare")
    /\ UrlContains(selected_urls[idx], "osf")
    /\ LET url == selected_urls[idx]
           folder_path == Append(ExtractedDir, folder_names[idx])
           f1 == makedirs(fs, folder_path)
       IN  \E response \in HeadReplies(url), reply \in FileReplies(url) :
             LET found == get_filename_from_response(response)
                 filename == IF found.found THEN found.filename
                             ELSE <<Last(url)>>
                 r == download_file(f1, Append(folder_path, filename), reply)
             IN  IF response.status # "ok"
                 THEN /\ fs' = f1
                      /\ pc' = "aborted"
                      /\ error' = "HTTPError"
                      /\ outcome' = Append(outcome,
                                       Ended("download_error", NoMembers))
                      /\ idx' = idx
                 ELSE IF r.raised # "none"
                 THEN /\ fs' = r.fs
                      /\ pc' = "aborted"
                      /\ error' = r.raised
                      /\ outcome' = Append(outcome,
                                       Ended("download_error", NoMembers))
                      /\ idx' = idx
                 ELSE /\ fs' = r.fs
                      /\ pc' = "loop"
                      /\ error' = error
                      /\ outcome' = Append(outcome,
                            Ended("ok", [n \in {<<filename>>} |-> reply.body]))
                      /\ idx' = idx + 1
    /\ fetchLog' = Append(fetchLog, selected_urls[idx])
    /\ lastOp' = "direct_file"
    /\ UNCHANGED <<selection, selected_urls, folder_names, normCall, packCall>>

\* cli.py:243-252: the openneuro branch, the only one inside try/except.
FetchOpenNeuro ==
    /\ AtEntry
    /\ ~UrlContains(selected_urls[idx], "figshare")
    /\ ~UrlContains(selected_urls[idx], "osf")
    /\ UrlContains(selected_urls[idx], "openneuro")
    /\ LET url == selected_urls[idx]
           dataset_id == Last(url)
           target_folder == Append(ExtractedDir, folder_names[idx])
           include_files == datasets[datasetKeys[FirstWithUrl(url)[1]]]
                                    [FirstWithUrl(url)[2]].include_files
       IN  \E run \in ToolRuns :
             LET r == download_dataset_openneuro(makedirs(fs, target_folder),
                          dataset_id, include_files, target_folder, run)
             IN  /\ fs' = r.fs
                 /\ outcome' = Append(outcome,
                        IF r.raised # "none" THEN Ended("tool_error", NoMembers)
                        ELSE Ended("ok",
                               TreeOf(ToolFiles(EmptyFs, dataset_id, include_files,
                                                target_folder, run),
                                      target_folder)))
    /\ idx' = idx + 1
    /\ pc' = "loop"
    /\ fetchLog' = Append(fetchLog, selected_urls[idx])
    /\ lastOp' = "openneuro"
    /\ UNCHANGED <<selection, selected_urls, folder_names, error, normCall, packCall>>

\* cli.py:254-255
WriteReadme ==
    /\ pc = "loop"
    /\ idx > Len(selected_urls)
    /\ fs' = create_readme(fs, selected_urls, ReadmePath)
    /\ pc' = "zip"
    /\ lastOp' = "create_readme"
    /\ UNCHANGED <<selection, selected_urls, folder_names, idx, error, outcome,
                   fetchLog, normCall, packCall>>

\* cli.py:257-258
PackExtracted ==
    /\ pc = "zip"
    /\ LET r == zip_all_folders(fs, ExtractedDir, MainZipPath)
       IN  /\ fs' = r.fs
           /\ packCall' = [made |-> TRUE, source_dir |-> ExtractedDir,
                           output_zip |-> MainZipPath, raised |-> r.raised,
                           before |-> fs]
           /\ pc' = IF r.raised = "none" THEN "cleanup" ELSE "aborted"
           /\ error' = IF r.raised = "none" THEN error ELSE "PackagingError"
    /\ lastOp' = "zip_all_folders"
    /\ UNCHANGED <<selection, selected_urls, folder_names, idx, outcome,
                   fetchLog, normCall>>

\* cli.py:260-263
Cleanup ==
    /\ pc = "cleanup"
    /\ fs' = rmtree(rmtree(fs, DownloadDir), ExtractedDir)
    /\ pc' = "done"
    /\ lastOp' = "cleanup"
    /\ UNCHANGED <<selection, selected_urls, folder_names, idx, error, outcome,
                   fetchLog, normCall, packCall>>

Next ==
    \/ ResolveSelection
    \/ MakeWorkingTree
    \/ DownloadArchive
    \/ ExtractArchive
    \/ FetchDirectFile
    \/ FetchOpenNeuro
    \/ WriteReadme
    \/ PackExtracted
    \/ Cleanup

Spec == Init /\ [][Next]_vars

(***************************************************************************)
(* zip_all_folders called on its own, on an arbitrary source directory     *)
(***************************************************************************)
SourceDir == << <<"src">> >>

OutputZip == << <<"out.zip">> >>

PackFiles ==
    { << <<"a">>, <<"x.txt">> >>, << <<"b">>, <<"y.txt">> >>,
      << <<"z.txt">> >>, << <<"a">>, <<"c">>, <<"w.txt">> >> }

PackBytes == {"absent", "1", "2"}

\* The directory SourceDir with the files the layout names, and an empty
\* subdirectory if asked for.
SourceTree(layout, empty_dir) ==
    LET present == {m \in PackFiles : layout[m] # "absent"}
        above == UNION {{SourceDir \o SubSeq(m, 1, k) : k \in 0..(Len(m) - 1)} :
                        m \in present}
    IN  [dirs |-> {SourceDir} \cup above
                  \cup (IF empty_dir THEN {Append(SourceDir, <<"e">>)} ELSE {}),
         files |-> [p \in {SourceDir \o m : m \in present} |->
                      Plain(<<layout[Drop(p, Len(SourceDir))]>>)]]

SourceTrees ==
    {EmptyFs} \cup {SourceTree(layout, e) :
                      layout \in [PackFiles -> PackBytes], e \in BOOLEAN}

PackInit ==
    /\ selection = <<>>
    /\ selected_urls = <<>>
    /\ folder_names = <<>>
    /\ pc = "pack"
    /\ idx = 0
    /\ fs \in SourceTrees
    /\ error = "none"
    /\ outcome = <<>>
    /\ fetchLog = <<>>
    /\ lastOp = "start"
    /\ normCall = NoNormCall
    /\ packCall = NoPackCall

\* zip_all_folders(source_dir, output_zip), as the module binds the name.
PackDirectory ==
    /\ pc = "pack"
    /\ LET r == zip_all_folders(fs, SourceDir, OutputZip)
       IN  /\ fs' = r.fs
           /\ packCall' = [made |-> TRUE, source_dir |-> SourceDir,
                           output_zip |-> OutputZip, raised |-> r.raised,
                           before |-> fs]
           /\ error' = IF r.raised = "none" THEN error ELSE "PackagingError"
    /\ pc' = "packed"
    /\ lastOp' = "zip_all_folders"
    /\ UNCHANGED <<selection, selected_urls, folder_names, idx, outcome,
                   fetchLog, normCall>>

PackNext == PackDirectory

\* The packaging call alone.
PackSpec == PackInit /\ [][PackNext]_vars

FullInit == Init \/ PackInit

FullNext == Next \/ PackDirectory

\* The pipeline and the packaging call alone, side by side.
FullSpec == FullInit /\ [][FullNext]_vars

(***************************************************************************)
(* The claims                                                              *)
(***************************************************************************)
RunEnded == pc \in {"done", "aborted"}

\* A token as the specification reads it: "<g>.<s>", two integers, both
\* 1-based and within the catalog.
ClaimParsed(tok) ==
    LET parts == Split(tok, ".")
    IN  Len(parts) = 2 /\ ParseInt(parts[1]).ok /\ ParseInt(parts[2]).ok

ClaimG(tok) == ParseInt(Split(tok, ".")[1]).val

ClaimS(tok) == ParseInt(Split(tok, ".")[2]).val

ClaimValid(tok) ==
    /\ ClaimParsed(tok)
    /\ 1 <= ClaimG(tok) /\ ClaimG(tok) <= Len(datasetKeys)
    /\ 1 <= ClaimS(tok) /\ ClaimS(tok) <= Len(datasets[datasetKeys[ClaimG(tok)]])

ClaimEntry(tok) == datasets[datasetKeys[ClaimG(tok)]][ClaimS(tok)]

ValidTokens == SelectSeq(selection, ClaimValid)

Admitted(tok) == ResolveToken(tok).ok

AdmittedTokens == SelectSeq(selection, Admitted)

FailedQuietly(i) == outcome[i].result \in {"tool_error", "extract_error"}

\* C1: a run that resolved at least one entry has removed downloads/ and
\* extracted/ by the time it ends, whichever entries failed and whatever
\* their backend; at most things-datasets.zip is left in output_dir.
C1_ScratchRemovedAtEnd ==
    (RunEnded /\ selected_urls # <<>>) =>
        /\ ~Exists(fs, DownloadDir)
        /\ ~Exists(fs, ExtractedDir)
        /\ Paths(fs) \subseteq {MainZipPath}

\* C2: a token is admitted if and only if it reads "<g>.<s>" with
\* 1 <= g <= number of groups and 1 <= s <= number of sub-entries of group
\* g, and then resolves to that entry; every other token adds nothing.
C2_AdmitsExactlyValidTokens ==
    (pc \notin {"resolve", "pack", "packed"}) =>
        /\ selected_urls =
             [i \in DOMAIN ValidTokens |-> ClaimEntry(ValidTokens[i]).download_url]
        /\ folder_names =
             [i \in DOMAIN ValidTokens |-> ClaimEntry(ValidTokens[i]).folder_name]

\* C3: the zip_all_folders in effect, given a source directory that is
\* missing or holds nothing, fails and leaves no file at the output path.
C3_PackRefusesEmptySource ==
    (/\ lastOp = "zip_all_folders"
     /\ \/ ~Exists(packCall.before, packCall.source_dir)
        \/ listdir(packCall.before, packCall.source_dir) = {}) =>
        /\ packCall.raised # "none"
        /\ ~Exists(fs, packCall.output_zip)

\* C4: when every selected entry failed without aborting the run and no
\* entry content is under extracted/, the run ends with a packaging error
\* and without things-datasets.zip.
C4_AllFailedIsFatal ==
    (/\ RunEnded
     /\ selected_urls # <<>>
     /\ Len(outcome) = Len(selected_urls)
     /\ \A i \in DOMAIN outcome : FailedQuietly(i)
     /\ packCall.made =>
          DOMAIN TreeOf(packCall.before, ExtractedDir) \subseteq {<< <<"README.txt">> >>}) =>
        /\ error = "PackagingError"
        /\ ~Exists(fs, MainZipPath)

\* C5: when the external-tool fetch or the normalization of an entry
\* fails, the run is not aborted: every later entry is processed, and the
\* manifest, the packaging and the cleanup are executed.
C5_QuietFailureNeverAborts ==
    (RunEnded /\ \E i \in DOMAIN outcome : FailedQuietly(i)) =>
        /\ pc = "done"
        /\ Len(outcome) = Len(selected_urls)
        /\ Len(fetchLog) = Len(selected_urls)
        /\ packCall.made
        /\ lastOp = "cleanup"

\* C5, the part that concerns the failing step alone: an external-tool or
\* normalization failure hands control to the next entry of the loop.
C5_QuietFailureStepContinues ==
    (outcome # <<>> /\ FailedQuietly(Len(outcome))
     /\ lastOp \in {"openneuro", "extract_and_rename_zip"}) =>
        /\ pc = "loop"
        /\ idx = Len(outcome) + 1
        /\ error = "none"

\* C6: when no token of the selection is valid, nothing is resolved and the
\* run ends cleanly: no fetch, no manifest, no packaging, no archive.
C6_NothingValidEndsCleanly ==
    (/\ pc \notin {"resolve", "pack", "packed"}
     /\ \A i \in DOMAIN selection : ~ClaimValid(selection[i])) =>
        /\ selected_urls = <<>>
        /\ pc = "done"
        /\ error = "none"
        /\ fetchLog = <<>>
        /\ ~packCall.made
        /\ fs = EmptyFs

C8_ArchiveMirrorsSourceTree ==
    (lastOp = "zip_all_folders" /\ packCall.raised = "none") =>
        LET src == packCall.source_dir
            was == packCall.before
            out == packCall.output_zip
        IN  /\ out \in DOMAIN fs.files
            /\ fs.files[out].ok
            /\ \A p \in DOMAIN was.files :
                 (IsPrefix(src, p) /\ p # src) =>
                   /\ Drop(p, Len(src)) \in DOMAIN fs.files[out].members
                   /\ fs.files[out].members[Drop(p, Len(src))] = was.files[p]
            /\ \A m \in DOMAIN fs.files[out].members : src \o m \in DOMAIN was.files
            /\ (pc = "cleanup") =>
                 /\ src = ExtractedDir
                 /\ out = MainZipPath
                 /\ << <<"README.txt">> >> \in DOMAIN fs.files[out].members

\* C8 is exercised: a directory holding a/x.txt and b/y.txt has been packed.
C8_Witness ==
    /\ lastOp = "zip_all_folders"
    /\ pc = "packed"
    /\ DOMAIN fs.files[OutputZip].members =
         { << <<"a">>, <<"x.txt">> >>, << <<"b">>, <<"y.txt">> >> }

\* C9: when two resolved entries with the same folder_name have both been
\* fetched successfully, extracted/<folder_name>/ holds exactly what the
\* second delivered and nothing of the first.
C9_SecondOverwritesFirst ==
    \A i, j \in DOMAIN outcome :
        (/\ i < j
         /\ j = Len(outcome)
         /\ pc = "loop"
         /\ folder_names[i] = folder_names[j]
         /\ outcome[i].result = "ok"
         /\ outcome[j].result = "ok") =>
            TreeOf(fs, Append(ExtractedDir, folder_names[j])) = outcome[j].delivered

\* C10: every call of extract_and_rename_zip on a well-formed archive with
\* exactly one top-level directory returns with
\* extract_root/<target_folder_name>/ holding exactly that directory's
\* content and with extract_root/temp_extract gone.
C10_NormalizerPostcondition ==
    (/\ lastOp = "extract_and_rename_zip"
     /\ normCall.made
     /\ WellFormed(normCall.before.files[normCall.zip_path])) =>
        /\ TreeOf(fs, Append(normCall.extract_to, normCall.new_folder_name))
             = ArchiveContent(normCall.before.files[normCall.zip_path])
        /\ ~Exists(fs, Append(normCall.extract_to, TempExtract))

=============================================================================
